---- MODULE Spec2Model ----
(***************************************************************************)
(* Model of std::tree<_ty> (the value-semantics draft of the tree header)  *)
(* and of its pre-order iterator, and of the format header's vformat,      *)
(* voformat, wformat and woformat.                                         *)
(*                                                                         *)
(* A node is the record [id, data, parent, children]:                      *)
(*   data     - the _data field;                                           *)
(*   parent   - the std::shared_ptr<node> _parent, <<>> for nullptr and    *)
(*              <<p>> for a pointer to the node value p it owns;           *)
(*   children - the std::vector<node> _children, held by value;            *)
(*   id       - a history label given by the constructor node(data) and    *)
(*              carried along by every copy: it lets properties say WHICH  *)
(*              node of the tree a copy was made from.  The one thing the  *)
(*              code reads off it is whether the node stands for no node:  *)
(*              id 0 marks the default-constructed node() of an empty      *)
(*              tree, which `if (node)` and `!_root` test.                 *)
(* The header is a class template that is written below the level the     *)
(* compiler checks (members are named without their underscore, -> is used *)
(* on values, std::vector has no remove).  Each statement is modelled by   *)
(* what it denotes on node values: x.children() is the callee's children   *)
(* sequence, _children.remove(v) is the std container remove(v) and        *)
(* std::find is the std algorithm.  The empty tree and the search that     *)
(* tests for it come from the older draft of the header, which still had   *)
(* the constructor tree().                                                 *)
(***************************************************************************)
EXTENDS Integers, Sequences, FiniteSets, TLC

\* ------------------------------------------------------------------ bounds
MaxValue == 2
MaxCalls == 3
MaxIdx == 2
MaxFmt == 2
MaxStr == 1
MaxArg == 10

\* the element type _ty
Values == 1..MaxValue
\* the two node objects the caller holds
Slots == {1, 2}

\* root    - tree::_root
\* held    - the node objects of the caller, <<>> for a slot not yet used
\* made    - the number of nodes constructed, ops - of calls made on them
\* nodes   - the _nodes stack of the iterator it (top = last element)
\* other   - the _nodes stack of a second iterator it2
\* snap    - history: <<the tree as it was at it = begin()>>
\* yielded - history: the tops popped by ++it since begin()
\* res     - history: the last call, its operands, result and error
\* call    - history: the last call of a format function and what it returned
VARIABLES root, held, made, ops, nodes, other, snap, yielded, res, call

vars == <<root, held, made, ops, nodes, other, snap, yielded, res, call>>

\* ------------------------------------------------------------- node values
\* node(_ty const &data): _data(data), _parent(nullptr), no children
node(id, data) ==
  [id |-> id, data |-> data, parent |-> <<>>, children |-> <<>>]

\* the values an indeterminate _ty may turn out to hold, 0 standing for
\* those outside Values
Indeterminate ==
  0..MaxValue

\* node(): _parent(nullptr), no children, _data left default-initialized
\* (indeterminate for a scalar _ty)
DefaultNodes ==
  {[id |-> 0, data |-> d, parent |-> <<>>, children |-> <<>>] :
     d \in Indeterminate}

\* `!_root`, `if (node)`: the node stands for no node
IsNull(n) ==
  n.id = 0

\* what an iterator at the end may hold after ++: nothing, or one node of
\* indeterminate content
AtEndStacks ==
  {<<>>} \cup {<<g>> : g \in DefaultNodes}

\* node::operator== compares the data only
NodeEq(a, b) ==
  a.data = b.data

\* node::operator!= compares the data only
NodeNe(a, b) ==
  a.data # b.data

Reverse(s) ==
  [i \in 1..Len(s) |-> s[Len(s) + 1 - i]]

\* node::append when child is another object than *this:
\* child.parent = make_shared<node>(this); _children.push_back(child)
\* result: <<the node after the call, the caller's child after the call>>
node_append(self, child) ==
  LET c1 == [child EXCEPT !.parent = <<self>>]
  IN  <<[self EXCEPT !.children = Append(@, c1)], c1>>

\* node::append when child is *this itself (n.append(n))
node_append_self(self) ==
  LET s1 == [self EXCEPT !.parent = <<self>>]
  IN  [s1 EXCEPT !.children = Append(@, s1)]

\* node::remove: _children.remove(child), the std container remove(value):
\* every element that compares equal to child is erased
node_remove(self, child) ==
  [self EXCEPT !.children = SelectSeq(@, LAMBDA c : ~NodeEq(c, child))]

\* std::find walking from the back: the last element equal to value
RECURSIVE find_last(_, _, _)
find_last(s, from, value) ==
  IF from > Len(s) THEN Len(s)
  ELSE IF NodeEq(s[Len(s) + 1 - from], value) THEN Len(s) - from
  ELSE find_last(s, from + 1, value)

\* std::find(first, last, value) as the offset of the returned iterator from
\* first: the first element equal to value, last (= size) when there is none
RECURSIVE find(_, _, _)
find(s, from, value) ==
  IF from > Len(s) THEN Len(s)
  ELSE IF NodeEq(s[from], value) THEN from - 1
  ELSE find(s, from + 1, value)

\* node::index
node_index(self, child) ==
  find(self.children, 1, child)

\* operator[] with the bounds check off by one (idx > size): at idx = size
\* it reads past the last child and hands back no child
node_at_off_by_one(self, idx) ==
  IF idx > Len(self.children)
    THEN [err |-> "out_of_range", ret |-> <<>>]
    ELSE IF idx = Len(self.children)
      THEN [err |-> "none", ret |-> <<>>]
      ELSE [err |-> "none", ret |-> <<self.children[idx + 1]>>]

\* node::operator[](unsigned int idx)
node_at(self, idx) ==
  IF idx >= Len(self.children)
    THEN [err |-> "out_of_range", ret |-> <<>>]
    ELSE [err |-> "none", ret |-> <<self.children[idx + 1]>>]

\* ------------------------------------------------------------------- tree
\* the loop of tree::search with only the first child pushed
RECURSIVE search_loop_first_child(_, _)
search_loop_first_child(node_stack, data) ==
  IF node_stack = <<>> THEN <<>>
  ELSE LET current_node == node_stack[Len(node_stack)]
           popped == SubSeq(node_stack, 1, Len(node_stack) - 1)
       IN  IF current_node.data = data
             THEN <<current_node>>
             ELSE search_loop_first_child(
                    IF current_node.children = <<>>
                      THEN popped
                      ELSE Append(popped, current_node.children[1]), data)

\* a pass of the loop that pushes each child twice
search_push_twice(node_stack) ==
  LET current_node == node_stack[Len(node_stack)]
      popped == SubSeq(node_stack, 1, Len(node_stack) - 1)
  IN  popped \o current_node.children \o current_node.children

\* one pass of the loop of tree::search that does not return: the top is
\* popped and its children are pushed, first to last
search_push(node_stack) ==
  LET current_node == node_stack[Len(node_stack)]
      popped == SubSeq(node_stack, 1, Len(node_stack) - 1)
  IN  popped \o current_node.children

\* the while loop of tree::search over node_stack (top = last element)
RECURSIVE search_loop(_, _)
search_loop(node_stack, data) ==
  IF node_stack = <<>> THEN <<>>
  ELSE LET current_node == node_stack[Len(node_stack)]
       IN  IF current_node.data = data
             THEN <<current_node>>
             ELSE search_loop(search_push(node_stack), data)

\* tree::search
search(r, data) ==
  search_loop(<<r>>, data)

\* the older draft's search without its `if (!_root) return nullptr`
tree_subscript_unchecked(r, data) ==
  search_loop(<<r>>, data)

\* the older draft's search, tree::operator[](const _ty &data): the same loop
\* behind a test for the empty tree
tree_subscript(r, data) ==
  IF IsNull(r) THEN <<>> ELSE search_loop(<<r>>, data)

\* tree::append putting the child in front of the root's children
tree_append_front(r, child) ==
  LET c1 == [child EXCEPT !.parent = <<r>>]
  IN  <<[r EXCEPT !.children = <<c1>> \o @], c1>>

\* tree::append
tree_append(r, child) ==
  LET c1 == [child EXCEPT !.parent = <<r>>]
  IN  <<[r EXCEPT !.children = Append(@, c1)], c1>>

\* tree::remove
tree_remove(r, child) ==
  node_remove(r, child)

\* tree::index
tree_index(r, child) ==
  find(r.children, 1, child)

\* tree::operator[](unsigned int idx)
tree_at(r, idx) ==
  node_at(r, idx)

\* --------------------------------------------------------------- iterator
\* a constructor that starts the stack with the node's children
iterator_children(n) ==
  IF IsNull(n) THEN <<>> ELSE Reverse(n.children)

\* _iterator::_iterator(node): if (node) _nodes.push(node)
iterator(n) ==
  IF IsNull(n) THEN <<>> ELSE <<n>>

\* tree::begin()
tree_begin(r) ==
  iterator(r)

\* tree::end(): the iterator with the empty stack
tree_end ==
  <<>>

\* an operator== that looks at the tops of the two stacks only
iter_eq_tops(a, b) ==
  /\ (a = <<>>) <=> (b = <<>>)
  /\ a # <<>> /\ b # <<>> => NodeEq(a[Len(a)], b[Len(b)])

\* _iterator::operator==: the stacks are compared, element by element with
\* node::operator==
iter_eq(a, b) ==
  /\ Len(a) = Len(b)
  /\ \A i \in 1..Len(a) : NodeEq(a[i], b[i])

\* _iterator::operator!=
iter_ne(a, b) ==
  ~iter_eq(a, b)

\* operator++ with the children pushed first to last, as tree::search does
iter_advance_forward(stk) ==
  LET current == stk[Len(stk)]
      popped == SubSeq(stk, 1, Len(stk) - 1)
  IN  popped \o current.children

\* operator++ with the children put under the nodes that were waiting
iter_advance_under(stk) ==
  LET current == stk[Len(stk)]
      popped == SubSeq(stk, 1, Len(stk) - 1)
  IN  Reverse(current.children) \o popped

\* operator++ on a stack of references into the tree: the children pushed
\* are those the node has in the tree at the time of the call
iter_advance_live(stk) ==
  LET current == stk[Len(stk)]
      popped == SubSeq(stk, 1, Len(stk) - 1)
      live == IF current.id = root.id
                THEN root.children
                ELSE current.children
  IN  popped \o Reverse(live)

\* _iterator::operator++ on the stack (top = last element)
iter_advance(stk) ==
  LET current == stk[Len(stk)]
      popped == SubSeq(stk, 1, Len(stk) - 1)
  IN  popped \o Reverse(current.children)

\* ------------------------------------------------------------ state machine
\* the tree of the documentation's example, R with children [A, B] and A with
\* children [C, D], built with node::append from nodes carrying d[1..5]
ExampleRoot(d) ==
  LET A1 == node_append(node(2, d[2]), node(3, d[3]))[1]
      A2 == node_append(A1, node(4, d[4]))[1]
      R1 == node_append(node(1, d[1]), A2)[1]
  IN  node_append(R1, node(5, d[5]))[1]

\* tree(_ty data) builds the root from a value; tree(node root) takes a node
\* the caller has built; the older drafts' tree() leaves the tree empty
InitRoots ==
  {node(1, d) : d \in Values}
    \cup {ExampleRoot(<<x, x, y, y, x>>) : x \in Values, y \in Values}
    \cup DefaultNodes

NewId(k) ==
  10 + k

NoRes ==
  [op |-> "none", self |-> <<>>, arg |-> <<>>, post |-> <<>>, ret |-> <<>>,
   err |-> "none"]

\* no undefined operation has been executed: what the program does after
\* one is not followed
Running ==
  ~(res.op \in {"advance", "deref"} /\ res.self = <<>>)

\* no format function has been called
NoCall ==
  [fn |-> "none", format |-> <<>>, args |-> <<>>, ret |-> <<>>]

Init ==
  /\ root \in InitRoots
  /\ held = [s \in Slots |-> <<>>]
  /\ made = 0
  /\ ops = 0
  /\ nodes = <<>>
  /\ other = <<>>
  /\ snap = <<>>
  /\ yielded = <<>>
  /\ res = NoRes
  /\ call = NoCall

\* the caller constructs node(d) in slot s
NewNode(s, d) ==
  /\ Running
  /\ made + ops < MaxCalls
  /\ held' = [held EXCEPT ![s] = <<node(NewId(made), d)>>]
  /\ made' = made + 1
  /\ UNCHANGED <<root, ops, nodes, other, snap, yielded, res, call>>

\* held[i].append(held[j])
NodeAppend(i, j) ==
  /\ Running
  /\ made + ops < MaxCalls
  /\ ops' = ops + 1
  /\ held[i] # <<>>
  /\ held[j] # <<>>
  /\ IF i = j
       THEN LET r == node_append_self(held[i][1])
            IN  /\ held' = [held EXCEPT ![i] = <<r>>]
                /\ res' = [op |-> "node_append", self |-> held[i],
                           arg |-> held[j], post |-> <<r>>, ret |-> <<>>,
                           err |-> "none"]
       ELSE LET r == node_append(held[i][1], held[j][1])
            IN  /\ held' = [held EXCEPT ![i] = <<r[1]>>, ![j] = <<r[2]>>]
                /\ res' = [op |-> "node_append", self |-> held[i],
                           arg |-> held[j], post |-> <<r[1]>>, ret |-> <<>>,
                           err |-> "none"]
  /\ UNCHANGED <<root, made, nodes, other, snap, yielded, call>>

\* tree.append(held[j])
TreeAppend(j) ==
  /\ Running
  /\ made + ops < MaxCalls
  /\ ops' = ops + 1
  /\ held[j] # <<>>
  /\ LET r == tree_append(root, held[j][1])
     IN  /\ root' = r[1]
         /\ held' = [held EXCEPT ![j] = <<r[2]>>]
         /\ res' = [op |-> "tree_append", self |-> <<root>>, arg |-> held[j],
                    post |-> <<r[1]>>, ret |-> <<>>, err |-> "none"]
  /\ UNCHANGED <<made, nodes, other, snap, yielded, call>>

\* held[i].remove(held[j])
NodeRemove(i, j) ==
  /\ Running
  /\ made + ops < MaxCalls
  /\ ops' = ops + 1
  /\ held[i] # <<>>
  /\ held[j] # <<>>
  /\ LET r == node_remove(held[i][1], held[j][1])
     IN  /\ held' = [held EXCEPT ![i] = <<r>>]
         /\ res' = [op |-> "node_remove", self |-> held[i], arg |-> held[j],
                    post |-> <<r>>, ret |-> <<>>, err |-> "none"]
  /\ UNCHANGED <<root, made, nodes, other, snap, yielded, call>>

\* tree.remove(held[j])
TreeRemove(j) ==
  /\ Running
  /\ made + ops < MaxCalls
  /\ ops' = ops + 1
  /\ held[j] # <<>>
  /\ LET r == tree_remove(root, held[j][1])
     IN  /\ root' = r
         /\ res' = [op |-> "tree_remove", self |-> <<root>>, arg |-> held[j],
                    post |-> <<r>>, ret |-> <<>>, err |-> "none"]
  /\ UNCHANGED <<held, made, nodes, other, snap, yielded, call>>

\* tree.search(x)
Search(x) ==
  /\ made + ops < MaxCalls
  /\ ops' = ops + 1
  /\ res' = [op |-> "search", self |-> <<root>>, arg |-> <<x>>,
             post |-> <<root>>, ret |-> search(root, x), err |-> "none"]
  /\ UNCHANGED <<root, held, made, nodes, other, snap, yielded, call>>

\* tree[x], the older draft's search
Subscript(x) ==
  /\ made + ops < MaxCalls
  /\ ops' = ops + 1
  /\ res' = [op |-> "subscript", self |-> <<root>>, arg |-> <<x>>,
             post |-> <<root>>, ret |-> tree_subscript(root, x),
             err |-> "none"]
  /\ UNCHANGED <<root, held, made, nodes, other, snap, yielded, call>>

\* held[i].index(held[j])
NodeIndex(i, j) ==
  /\ made + ops < MaxCalls
  /\ ops' = ops + 1
  /\ held[i] # <<>>
  /\ held[j] # <<>>
  /\ res' = [op |-> "node_index", self |-> held[i], arg |-> held[j],
             post |-> held[i], ret |-> <<node_index(held[i][1], held[j][1])>>,
             err |-> "none"]
  /\ UNCHANGED <<root, held, made, nodes, other, snap, yielded, call>>

\* tree.index(held[j])
TreeIndex(j) ==
  /\ made + ops < MaxCalls
  /\ ops' = ops + 1
  /\ held[j] # <<>>
  /\ res' = [op |-> "tree_index", self |-> <<root>>, arg |-> held[j],
             post |-> <<root>>, ret |-> <<tree_index(root, held[j][1])>>,
             err |-> "none"]
  /\ UNCHANGED <<root, held, made, nodes, other, snap, yielded, call>>

\* held[i][idx]
NodeAt(i, idx) ==
  /\ made + ops < MaxCalls
  /\ ops' = ops + 1
  /\ held[i] # <<>>
  /\ LET r == node_at(held[i][1], idx)
     IN  res' = [op |-> "node_at", self |-> held[i], arg |-> <<idx>>,
                 post |-> held[i], ret |-> r.ret, err |-> r.err]
  /\ UNCHANGED <<root, held, made, nodes, other, snap, yielded, call>>

\* tree[idx]
TreeAt(idx) ==
  /\ made + ops < MaxCalls
  /\ ops' = ops + 1
  /\ LET r == tree_at(root, idx)
     IN  res' = [op |-> "tree_at", self |-> <<root>>, arg |-> <<idx>>,
                 post |-> <<root>>, ret |-> r.ret, err |-> r.err]
  /\ UNCHANGED <<root, held, made, nodes, other, snap, yielded, call>>

\* it = tree.begin()
Begin ==
  /\ Running
  /\ nodes' = tree_begin(root)
  /\ snap' = <<root>>
  /\ yielded' = <<>>
  /\ UNCHANGED <<root, held, made, ops, other, res, call>>

\* ++it.  On an iterator at the end, top() and pop() act on an empty stack,
\* which is undefined: the program stops, or goes on with whatever the stack
\* then holds, and the walk that was begun is over either way.
Advance ==
  /\ Running
  /\ IF nodes # <<>>
       THEN /\ yielded' = Append(yielded, nodes[Len(nodes)])
            /\ nodes' = iter_advance(nodes)
            /\ UNCHANGED <<snap, res>>
       ELSE /\ \E e \in {"crash", "none"}, g \in AtEndStacks :
                 /\ nodes' = IF e = "crash" THEN nodes ELSE g
                 /\ res' = [op |-> "advance", self |-> nodes, arg |-> <<>>,
                            post |-> nodes', ret |-> <<>>, err |-> e]
            /\ snap' = <<>>
            /\ yielded' = <<>>
  /\ UNCHANGED <<root, held, made, ops, other, call>>

\* *it and it->: the data of the top of the stack; the iterator is const.
\* On an iterator at the end top() is undefined: the program stops, or the
\* call returns whatever it finds there.
Deref ==
  /\ Running
  /\ IF nodes # <<>>
       THEN res' = [op |-> "deref", self |-> nodes, arg |-> <<>>,
                    post |-> nodes, ret |-> <<nodes[Len(nodes)].data>>,
                    err |-> "none"]
       ELSE \/ res' = [op |-> "deref", self |-> nodes, arg |-> <<>>,
                       post |-> nodes, ret |-> <<>>, err |-> "crash"]
            \/ \E v \in Indeterminate :
                 res' = [op |-> "deref", self |-> nodes, arg |-> <<>>,
                         post |-> nodes, ret |-> <<v>>, err |-> "none"]
  /\ UNCHANGED <<root, held, made, ops, nodes, other, snap, yielded, call>>

\* it2 = tree.begin(), a second iterator object
BeginOther ==
  /\ Running
  /\ other' = tree_begin(root)
  /\ UNCHANGED <<root, held, made, ops, nodes, snap, yielded, res, call>>

\* ++it2
AdvanceOther ==
  /\ Running
  /\ IF other # <<>>
       THEN /\ other' = iter_advance(other)
            /\ UNCHANGED res
       ELSE \E e \in {"crash", "none"}, g \in AtEndStacks :
                 /\ other' = IF e = "crash" THEN other ELSE g
                 /\ res' = [op |-> "advance", self |-> other, arg |-> <<>>,
                            post |-> other', ret |-> <<>>, err |-> e]
  /\ UNCHANGED <<root, held, made, ops, nodes, snap, yielded, call>>

Mutate ==
  \/ \E s \in Slots, d \in Values : NewNode(s, d)
  \/ \E i \in Slots, j \in Slots : NodeAppend(i, j)
  \/ \E j \in Slots : TreeAppend(j)
  \/ \E i \in Slots, j \in Slots : NodeRemove(i, j)
  \/ \E j \in Slots : TreeRemove(j)

Query ==
  \/ \E x \in Values : Search(x)
  \/ \E x \in Values : Subscript(x)
  \/ \E i \in Slots, j \in Slots : NodeIndex(i, j)
  \/ \E j \in Slots : TreeIndex(j)
  \/ \E i \in Slots, idx \in 0..MaxIdx : NodeAt(i, idx)
  \/ \E idx \in 0..MaxIdx : TreeAt(idx)

Walk ==
  \/ Begin
  \/ Advance

Inspect ==
  \/ Deref
  \/ BeginOther
  \/ AdvanceOther

\* the container: building, and the queries on what was built
Next ==
  Mutate \/ Query

Spec == Init /\ [][Next]_vars

\* the iterator: walks over a tree that may be modified between two steps
NextIter ==
  Mutate \/ Walk

SpecIter == Init /\ [][NextIter]_vars

\* two iterators over a tree that is not modified, and what they yield
NextCursors ==
  Walk \/ Inspect

SpecCursors == Init /\ [][NextCursors]_vars

\* ---------------------------------------------------------- format header
\* A string is the sequence of its characters.  A format is a sequence of
\* tokens, the ordinary character "a" and the conversions "%s" and "%d"; the
\* arguments of a call are records [kind, str, num], one for each conversion
\* of the format and of its kind.
Directives ==
  {"%s", "%d"}

Tokens ==
  {"a"} \cup Directives

Formats ==
  UNION {[1..n -> Tokens] : n \in 0..MaxFmt}

StrArgs ==
  {[kind |-> "%s", str |-> t, num |-> 0] :
     t \in UNION {[1..n -> {"b"}] : n \in 0..MaxStr}}

IntArgs ==
  {[kind |-> "%d", str |-> <<>>, num |-> k] : k \in {-1, 0, MaxArg}}

\* the argument packs that fit the conversions of format
ArgsFor(format) ==
  LET d == SelectSeq(format, LAMBDA t : t \in Directives)
  IN  {a \in [1..Len(d) -> StrArgs \cup IntArgs] :
         \A i \in 1..Len(d) : a[i].kind = d[i]}

\* the decimal digits %d writes
RECURSIVE Digits(_)
Digits(k) ==
  IF k < 0 THEN <<"-">> \o Digits(0 - k)
  ELSE IF k < 10
    THEN <<(<<"0", "1", "2", "3", "4", "5", "6", "7", "8", "9">>)[k + 1]>>
  ELSE Digits(k \div 10) \o Digits(k % 10)

\* the characters the printf family produces for format and args
RECURSIVE printf_output(_, _)
printf_output(format, args) ==
  IF format = <<>> THEN <<>>
  ELSE IF Head(format) = "%s"
    THEN args[1].str \o printf_output(Tail(format), Tail(args))
  ELSE IF Head(format) = "%d"
    THEN Digits(args[1].num) \o printf_output(Tail(format), Tail(args))
  ELSE <<Head(format)>> \o printf_output(Tail(format), args)

\* std::snprintf(buf, n, ...): at most n - 1 characters are stored, and the
\* length the whole output has is returned whatever n is
snprintf(n, format, args) ==
  LET out == printf_output(format, args)
  IN  [ret |-> Len(out),
       buf |-> IF n = 0 THEN <<>>
               ELSE SubSeq(out, 1, IF Len(out) < n THEN Len(out) ELSE n - 1)]

\* std::swprintf(buf, n, ...): a negative value is returned when n or more
\* wide characters would have to be written, which with n = 0 is always
swprintf(n, format, args) ==
  LET out == printf_output(format, args)
  IN  IF Len(out) >= n
        THEN [ret |-> -1, buf |-> <<>>]
        ELSE [ret |-> Len(out), buf |-> out]

\* (std::size_t) r + 1 for the int r a printf function returned: -1 becomes
\* the largest size_t, and adding 1 wraps it to 0
size_plus_one(r) ==
  IF r = -1 THEN 0 ELSE r + 1

\* vformat: the size is asked of snprintf(nullptr, 0, ...), a buffer of that
\* size is filled, and its first sz - 1 characters are returned
vformat(format, args) ==
  LET sz == size_plus_one(snprintf(0, format, args).ret)
  IN  IF sz > 0
        THEN SubSeq(snprintf(sz, format, args).buf, 1, sz - 1)
        ELSE <<>>

\* voformat: std::optional is <<>> for nullopt and <<s>> when it holds s
voformat(format, args) ==
  LET s == vformat(format, args)
  IN  IF Len(s) = 0 THEN <<s>> ELSE <<>>

\* wformat: as vformat, with swprintf
wformat(format, args) ==
  LET sz == size_plus_one(swprintf(0, format, args).ret)
  IN  IF sz > 0
        THEN SubSeq(swprintf(sz, format, args).buf, 1, sz - 1)
        ELSE <<>>

\* woformat
woformat(format, args) ==
  LET s == wformat(format, args)
  IN  IF Len(s) = 0 THEN <<s>> ELSE <<>>

VFormat(format, args) ==
  /\ call = NoCall
  /\ call' = [fn |-> "vformat", format |-> format, args |-> args,
              ret |-> vformat(format, args)]
  /\ UNCHANGED <<root, held, made, ops, nodes, other, snap, yielded, res>>

VOFormat(format, args) ==
  /\ call = NoCall
  /\ call' = [fn |-> "voformat", format |-> format, args |-> args,
              ret |-> voformat(format, args)]
  /\ UNCHANGED <<root, held, made, ops, nodes, other, snap, yielded, res>>

WFormat(format, args) ==
  /\ call = NoCall
  /\ call' = [fn |-> "wformat", format |-> format, args |-> args,
              ret |-> wformat(format, args)]
  /\ UNCHANGED <<root, held, made, ops, nodes, other, snap, yielded, res>>

WOFormat(format, args) ==
  /\ call = NoCall
  /\ call' = [fn |-> "woformat", format |-> format, args |-> args,
              ret |-> woformat(format, args)]
  /\ UNCHANGED <<root, held, made, ops, nodes, other, snap, yielded, res>>

\* the format functions, each called once with every format and fitting
\* arguments: they keep no state, so one call shows all a call can do
NextFormat ==
  \/ \E f \in Formats : \E a \in ArgsFor(f) : VFormat(f, a)
  \/ \E f \in Formats : \E a \in ArgsFor(f) : VOFormat(f, a)
  \/ \E f \in Formats : \E a \in ArgsFor(f) : WFormat(f, a)
  \/ \E f \in Formats : \E a \in ArgsFor(f) : WOFormat(f, a)

SpecFormat == Init /\ [][NextFormat]_vars


\* --------------------------------------------------------------- properties
\* pre-order: a node, then the pre-orders of its children from left to right
RECURSIVE Preorder(_), PreorderAll(_)
Preorder(n) ==
  <<n>> \o PreorderAll(n.children)

PreorderAll(s) ==
  IF s = <<>> THEN <<>> ELSE Preorder(Head(s)) \o PreorderAll(Tail(s))

\* the pre-order of a tree: nothing when the tree is empty
TreeOrder(r) ==
  IF IsNull(r) THEN <<>> ELSE Preorder(r)

Ids(s) ==
  [i \in 1..Len(s) |-> s[i].id]

Range(s) ==
  {s[i] : i \in 1..Len(s)}

\* the first element of s whose data is x, as <<element>>, <<>> when none
FirstWith(s, x) ==
  IF \E i \in 1..Len(s) : s[i].data = x
    THEN <<s[CHOOSE i \in 1..Len(s) :
               /\ s[i].data = x
               /\ \A k \in 1..(i - 1) : s[k].data # x]>>
    ELSE <<>>

\* C1: an iterator obtained from begin() and advanced with operator++ yields
\* the nodes of the tree it was started on in pre-order (a parent before its
\* children, siblings from left to right), and it compares equal to end()
\* after exactly as many advances as the tree has nodes, not earlier.
C1_PreOrderWalk ==
  snap # <<>> =>
    LET order == TreeOrder(snap[1])
    IN  /\ Len(yielded) <= Len(order)
        /\ yielded = SubSeq(order, 1, Len(yielded))
        /\ iter_eq(nodes, tree_end) <=> Len(yielded) = Len(order)

\* the walk over R with children [A, B] and A with children [C, D] has
\* yielded R, A, C, D, B and stands at end() after 5 advances
C1_Witness ==
  /\ snap # <<>>
  /\ Len(snap[1].children) = 2
  /\ Len(snap[1].children[1].children) = 2
  /\ snap[1].children[2].children = <<>>
  /\ Ids(yielded) = <<1, 2, 3, 4, 5>>
  /\ iter_eq(nodes, tree_end)

\* C2: when several nodes hold x, search(x) returns the node that comes
\* first in left-to-right pre-order, the one an iterator from begin() yields
\* first.
C2_SearchFirstInPreorder ==
  (res.op = "search" /\ res.ret # <<>>) =>
    res.ret = FirstWith(Preorder(res.self[1]), res.arg[1])

\* C3: search(x) returns a node of the tree whose data is x when some node
\* reachable from the root holds x, and nullptr when none does; it never
\* reports an error.
C3_SearchComplete ==
  res.op = "search" =>
    LET all == Range(Preorder(res.self[1]))
        x == res.arg[1]
    IN  /\ res.err = "none"
        /\ (\E n \in all : n.data = x) =>
             /\ res.ret # <<>>
             /\ res.ret[1] \in all
             /\ res.ret[1].data = x
        /\ (\A n \in all : n.data # x) => res.ret = <<>>

\* search found x in a grandchild of the root, no node above holding it
C3_Witness ==
  /\ res.op = "search"
  /\ res.ret # <<>>
  /\ res.self[1].data # res.arg[1]
  /\ \A i \in 1..Len(res.self[1].children) :
       res.self[1].children[i].data # res.arg[1]

\* s without its first element that compares equal to child
RemoveFirst(s, child) ==
  IF \E i \in 1..Len(s) : s[i].data = child.data
    THEN LET f == CHOOSE i \in 1..Len(s) :
                    /\ s[i].data = child.data
                    /\ \A k \in 1..(i - 1) : s[k].data # child.data
         IN  SubSeq(s, 1, f - 1) \o SubSeq(s, f + 1, Len(s))
    ELSE s

IsRemove ==
  res.op \in {"node_remove", "tree_remove"}

IsAppend ==
  res.op \in {"node_append", "tree_append"}

\* C4: remove(child) on a node, and on the tree for its root, erases only
\* the first child whose data equals child's and leaves every other child,
\* later children with the same data included, in place and in order.
C4_RemoveOnlyFirstMatch ==
  IsRemove =>
    res.post[1].children = RemoveFirst(res.self[1].children, res.arg[1])

\* the ids of the nodes reachable from n, n included
ReachableIds(n) ==
  {m.id : m \in Range(Preorder(n))}

\* no two nodes reachable from n are copies of one constructed node
DistinctNodes(n) ==
  Cardinality(ReachableIds(n)) = Len(Preorder(n))

\* C5: after remove(child) has removed a child, the first one equal to
\* child, no node of that child's subtree is reachable from the node any
\* more, and every node outside that subtree still is.
C5_RemovedSubtreeUnreachable ==
  (/\ IsRemove
   /\ DistinctNodes(res.self[1])
   /\ FirstWith(res.self[1].children, res.arg[1].data) # <<>>) =>
    LET gone == FirstWith(res.self[1].children, res.arg[1].data)[1]
    IN  ReachableIds(res.post[1])
          = ReachableIds(res.self[1]) \ ReachableIds(gone)

\* the ids of n and of the nodes on its parent chain
RECURSIVE SelfAndAncestorIds(_)
SelfAndAncestorIds(n) ==
  {n.id} \cup (IF n.parent = <<>> THEN {} ELSE SelfAndAncestorIds(n.parent[1]))

\* C6: n.append(child) fails with CycleError whenever child is n itself or
\* an ancestor of n.
C6_AppendOfAncestorFails ==
  (IsAppend /\ res.arg[1].id \in SelfAndAncestorIds(res.self[1])) =>
    res.err = "CycleError"

\* C7: a.append(b) with b already a descendant of a fails with CycleError
\* and leaves a, its children and their parent references, as it was.
C7_AppendOfDescendantFails ==
  (IsAppend /\ res.arg[1].id \in ReachableIds(res.self[1]) \ {res.self[1].id}) =>
    /\ res.err = "CycleError"
    /\ res.post = res.self

\* every node below n has a parent reference to the node whose children
\* sequence holds it, with that node's children as they are now
RECURSIVE ParentsDesignate(_)
ParentsDesignate(n) ==
  \A i \in 1..Len(n.children) :
    LET c == n.children[i]
    IN  /\ c.parent # <<>>
        /\ c.parent[1].id = n.id
        /\ Ids(c.parent[1].children) = Ids(n.children)
        /\ ParentsDesignate(c)

\* C8: after tree::append and node::append, each non-root node reachable
\* from the root has a parent reference that designates the node whose
\* children sequence currently contains it.
C8_ParentIsOwner ==
  res.op = "tree_append" => ParentsDesignate(root)

IsIndex ==
  res.op \in {"node_index", "tree_index"}

IsAt ==
  res.op \in {"node_at", "tree_at"}

\* C10: on a node with k children operator[](i) fails with out_of_range for
\* every i >= k (k = 0 included) and returns the child at position i for
\* every i < k; tree::operator[](i) does the same for the root.
C10_IndexBounds ==
  IsAt =>
    LET s == res.self[1].children
        i == res.arg[1]
    IN  /\ i >= Len(s) => (res.err = "out_of_range" /\ res.ret = <<>>)
        /\ i < Len(s) => (res.err = "none" /\ res.ret = <<s[i + 1]>>)

\* operator[] was called with i = k on a node that has children, and failed
C10_Witness ==
  /\ IsAt
  /\ res.self[1].children # <<>>
  /\ res.arg[1] = Len(res.self[1].children)
  /\ res.err = "out_of_range"

(***************************************************************************)
(* C11.  A default-constructed tree is empty: its root stands for no node, *)
(* begin() equals end() (a cursor begun on it has an empty work list and   *)
(* has yielded nothing), and the older draft's search returns no node for  *)
(* every value.                                                            *)
(***************************************************************************)
C11_EmptyTree ==
  root \in DefaultNodes =>
    /\ IsNull(root)
    /\ iter_eq(tree_begin(root), tree_end)
    /\ snap = <<root>> => nodes = <<>> /\ yielded = <<>>
    /\ \A x \in Values : tree_subscript(root, x) = <<>>

\* begin() has been called on an empty tree
C11_Witness ==
  /\ root \in DefaultNodes
  /\ snap = <<root>>
  /\ nodes = tree_end

(***************************************************************************)
(* C12.  remove(child) reports whether a child matching child was found;   *)
(* when none matches it reports false, raises no error and leaves the      *)
(* children of the node it was called on as they were.                     *)
(***************************************************************************)
C12_RemoveReportsMatch ==
  IsRemove =>
    LET s       == res.self[1].children
        matched == \E i \in 1..Len(s) : NodeEq(s[i], res.arg[1])
    IN  /\ res.ret = <<matched>>
        /\ ~matched => (res.err = "none" /\ res.post = res.self)

(***************************************************************************)
(* C13.  tree.append(child) on a tree that has a root does exactly what    *)
(* root.append(child) does (child becomes the last child of the root, its  *)
(* parent the root); on a tree with no root it fails with EmptyTreeError   *)
(* and leaves the tree empty.                                              *)
(***************************************************************************)
C13_TreeAppendNeedsRoot ==
  res.op = "tree_append" =>
    IF IsNull(res.self[1])
      THEN /\ res.err = "EmptyTreeError"
           /\ res.post = res.self
      ELSE /\ res.err = "none"
           /\ res.post[1] = node_append(res.self[1], res.arg[1])[1]

(***************************************************************************)
(* C14.  Dereferencing (with * or ->) or advancing an iterator that is at  *)
(* the end, its stack empty, fails with an error instead of yielding a     *)
(* value or going on; dereferencing an iterator whose stack is not empty   *)
(* yields the data of the top node and leaves the iterator as it was.      *)
(***************************************************************************)
C14_EndOfTraversal ==
  /\ (res.op \in {"deref", "advance"} /\ res.self = tree_end) =>
       (res.err # "none" /\ res.ret = <<>> /\ res.post = res.self)
  /\ (res.op = "deref" /\ res.self # tree_end) =>
       /\ res.err = "none"
       /\ res.ret = <<res.self[Len(res.self)].data>>
       /\ res.post = res.self

(***************************************************************************)
(* C15.  Two iterators compare equal exactly when their stacks have the    *)
(* same length and hold equal values position by position; an iterator     *)
(* equals end() exactly when its stack is empty; so an iterator begun on a *)
(* tree that is not empty differs from end() as long as some node has not  *)
(* been yielded, duplicate values or not.                                  *)
(***************************************************************************)
C15_CursorEquality ==
  /\ iter_eq(nodes, other) <=>
       /\ Len(nodes) = Len(other)
       /\ \A i \in 1..Len(nodes) : nodes[i].data = other[i].data
  /\ iter_ne(nodes, other) <=> ~iter_eq(nodes, other)
  /\ iter_eq(nodes, tree_end) <=> nodes = <<>>
  /\ iter_eq(other, tree_end) <=> other = <<>>
  /\ (snap # <<>> /\ Len(yielded) < Len(TreeOrder(snap[1]))) =>
       iter_ne(nodes, tree_end)

\* two iterators at different places of a walk over a tree with duplicate
\* values, one of them having yielded a part of the tree only
C15_Witness ==
  /\ snap # <<>>
  /\ 0 < Len(yielded)
  /\ Len(yielded) < Len(TreeOrder(snap[1]))
  /\ other # <<>>
  /\ Len(other) # Len(nodes)
  /\ NodeEq(other[Len(other)], nodes[Len(nodes)])

\* a is b with some elements left out, the others in the order they have in b
RECURSIVE IsSubseq(_, _)
IsSubseq(a, b) ==
  IF a = <<>> THEN TRUE
  ELSE IF b = <<>> THEN FALSE
  ELSE IF a[1] = b[1] THEN IsSubseq(Tail(a), Tail(b))
  ELSE IsSubseq(a, Tail(b))

(***************************************************************************)
(* C16.  The children of a node are its surviving children in the order    *)
(* they were appended: append puts the new child after all the others,     *)
(* remove leaves the children it keeps in the order they had, and index    *)
(* and operator[] leave the sequence as it is.                             *)
(***************************************************************************)
C16_ChildrenInAppendOrder ==
  /\ IsAppend =>
       LET sc == res.self[1].children
           pc == res.post[1].children
       IN  /\ Len(pc) = Len(sc) + 1
           /\ SubSeq(pc, 1, Len(sc)) = sc
           /\ pc[Len(pc)].id = res.arg[1].id
           /\ pc[Len(pc)].data = res.arg[1].data
  /\ IsRemove =>
       IsSubseq(res.post[1].children, res.self[1].children)
  /\ (IsIndex \/ IsAt) => res.post = res.self

\* a remove has erased a child of a node and kept two or more others
C16_Witness ==
  /\ IsRemove
  /\ Len(res.post[1].children) >= 2
  /\ Len(res.post[1].children) < Len(res.self[1].children)

\* the nodes tree::search pops, in order, from node_stack on
RECURSIVE SearchVisits(_, _)
SearchVisits(node_stack, data) ==
  IF node_stack = <<>> THEN <<>>
  ELSE LET current_node == node_stack[Len(node_stack)]
       IN  IF current_node.data = data
             THEN <<current_node>>
             ELSE <<current_node>> \o SearchVisits(search_push(node_stack), data)

\* the nodes pushed in a traversal that started with r on the stack and has
\* popped the nodes of visited: r, and the children of every node popped
RECURSIVE ChildrenOf(_)
ChildrenOf(visited) ==
  IF visited = <<>> THEN <<>>
  ELSE visited[1].children \o ChildrenOf(Tail(visited))

Pushed(r, visited) ==
  <<r>> \o ChildrenOf(visited)

\* a and b hold the same elements the same number of times (with the lengths
\* equal, b has no room for an element a lacks)
SameBag(a, b) ==
  /\ Len(a) = Len(b)
  /\ \A e \in Range(a) :
       Cardinality({i \in 1..Len(a) : a[i] = e})
         = Cardinality({i \in 1..Len(b) : b[i] = e})

(***************************************************************************)
(* C17.  The traversal with the explicit stack visits every node reachable *)
(* from the root exactly once.  In a search for a value the tree does not  *)
(* hold, the nodes pushed and the nodes popped are each the nodes of the   *)
(* tree, once each, and the loop ends on the empty stack.  In a walk with  *)
(* an iterator every node pushed is either popped or still on the stack,   *)
(* never both and never twice, and once the stack is empty the nodes       *)
(* pushed and the nodes popped are each the nodes of the tree.             *)
(***************************************************************************)
C17_VisitsEachNodeOnce ==
  /\ LET reachable == Preorder(root)
     IN  \A x \in Values :
           (\A i \in 1..Len(reachable) : reachable[i].data # x) =>
             LET visited == SearchVisits(<<root>>, x)
             IN  /\ search(root, x) = <<>>
                 /\ SameBag(visited, reachable)
                 /\ SameBag(Pushed(root, visited), reachable)
  /\ (snap # <<>> /\ ~IsNull(snap[1])) =>
       LET all == Preorder(snap[1])
       IN  /\ SameBag(yielded \o nodes, Pushed(snap[1], yielded))
           /\ Len(yielded) + Len(nodes) <= Len(all)
           /\ nodes = <<>> =>
                /\ SameBag(yielded, all)
                /\ SameBag(Pushed(snap[1], yielded), all)

\* a walk over the example tree has ended, and the tree lacks some value a
\* search may be given
C17_Witness ==
  /\ snap = <<root>>
  /\ nodes = <<>>
  /\ Len(yielded) = 5
  /\ \E x \in Values : \A n \in Range(Preorder(root)) : n.data # x

(***************************************************************************)
(* C18.  begin() on a tree that is not empty returns an iterator whose     *)
(* stack holds the root and nothing else, however far an iterator obtained *)
(* before has been advanced; a step of one iterator changes neither the    *)
(* tree nor the stack of the other iterator.                               *)
(***************************************************************************)
C18_BeginRestartsAtRoot ==
  [][/\ (Begin /\ ~IsNull(root)) => nodes' = <<root>>
     /\ (BeginOther /\ ~IsNull(root)) => other' = <<root>>
     /\ (nodes' # nodes \/ other' # other) => root' = root
     /\ nodes' # nodes => other' = other
     /\ other' # other => nodes' = nodes]_vars

\* the second iterator is at the root while the first, begun on the same
\* tree, is in the middle of its walk
C18_Witness ==
  /\ snap = <<root>>
  /\ Len(yielded) >= 2
  /\ nodes # <<>>
  /\ other = <<root>>

\* the values held by the nodes of s, in order
Data(s) ==
  [i \in 1..Len(s) |-> s[i].data]

(***************************************************************************)
(* C19.  An iterator walks the tree as it was when begin() was called: the *)
(* stack holds copies of nodes, children included, so when the tree has    *)
(* been changed by append or remove since, the values yielded are still    *)
(* those of the tree at begin() in pre-order, and end() is reached after   *)
(* as many advances as that tree had nodes.                                *)
(***************************************************************************)
C19_WalksSnapshot ==
  (snap # <<>> /\ root # snap[1]) =>
    LET order == TreeOrder(snap[1])
    IN  /\ Len(yielded) <= Len(order)
        /\ Data(yielded) = Data(SubSeq(order, 1, Len(yielded)))
        /\ iter_eq(nodes, tree_end) <=> Len(yielded) = Len(order)

\* a walk has ended on a tree that was changed after begin(): what was
\* yielded is not what a walk over the tree as it is now would yield
C19_Witness ==
  /\ snap # <<>>
  /\ root # snap[1]
  /\ nodes = <<>>
  /\ Len(yielded) >= 2
  /\ Data(yielded) # Data(TreeOrder(root))

(***************************************************************************)
(* C20.  At every point of a walk over a tree that is not modified: no     *)
(* node on the stack is an ancestor of another; the nodes not yet yielded  *)
(* are the nodes on the stack and their descendants; and the stack read    *)
(* from the top down is in pre-order, so that the nodes yielded, followed  *)
(* by each stack node with its subtree, are the pre-order of the tree and  *)
(* the top is the pre-order successor of the node yielded last.            *)
(***************************************************************************)
C20_WorkListInvariant ==
  (snap # <<>> /\ ~IsNull(snap[1])) =>
    LET order == Preorder(snap[1])
        top_down == Reverse(nodes)
    IN  /\ yielded \o PreorderAll(top_down) = order
        /\ nodes # <<>> => nodes[Len(nodes)] = order[Len(yielded) + 1]
        /\ DistinctNodes(snap[1]) =>
             \A i \in 1..Len(nodes), j \in 1..Len(nodes) :
               i # j => nodes[i].id \notin ReachableIds(nodes[j])

\* in the middle of a walk over the example tree: A has been yielded, its
\* children wait on the stack above B
C20_Witness ==
  /\ snap = <<root>>
  /\ Len(yielded) = 2
  /\ Len(nodes) = 3

(***************************************************************************)
(* C21.  voformat returns an optional that holds the string vformat        *)
(* produces exactly when that string is not empty, and nullopt exactly     *)
(* when it is empty; woformat likewise with wformat.                       *)
(***************************************************************************)
C21_OptionalIffNonEmpty ==
  /\ call.fn = "voformat" =>
       LET s == vformat(call.format, call.args)
       IN  call.ret = IF s # <<>> THEN <<s>> ELSE <<>>
  /\ call.fn = "woformat" =>
       LET s == wformat(call.format, call.args)
       IN  call.ret = IF s # <<>> THEN <<s>> ELSE <<>>

====
